---- MODULE Spec2Model ----
(***************************************************************************)
(* RangedStream (src/src/stream.rs): the ranged-read state machine that    *)
(* seeks a RangeBody to `start` and then reads `length` bytes from it in   *)
(* chunks of at most IO_BUFFER_SIZE bytes.                                 *)
(*                                                                         *)
(* Integer widths and the buffer size are scaled down so that TLC can      *)
(* enumerate the runs: u64 is U64Bits wide, usize is UsizeBits wide and    *)
(* IO_BUFFER_SIZE stands for 64 * 1024.  The order                         *)
(* IO_BUFFER_SIZE < USIZE_MAX < U64_MAX of the 32-bit build is kept.       *)
(***************************************************************************)
EXTENDS Integers, Sequences, FiniteSets, TLC

\* ------------------------------------------------------------------ bounds
U64Bits == 4
UsizeBits == 3
MaxStart == 1
MaxLength == 5
MaxSize == 5
MaxErrors == 1

U64_MAX == 2^U64Bits - 1
USIZE_MAX == 2^UsizeBits - 1

\* const IO_BUFFER_SIZE: usize = 64 * 1024, scaled.
IO_BUFFER_SIZE == 2

Min(a, b) == IF a <= b THEN a ELSE b

\* The I/O errors a source can report.
IoErrors == {"e1", "e2"}

\* ---------------------------------------------------- poll_next's results
Running == [kind |-> "Running"]
RetPending == [kind |-> "Pending"]
ReadyNone == [kind |-> "None"]
ReadyErr(e) == [kind |-> "Err", err |-> e]
ReadyChunk(b) == [kind |-> "Chunk", bytes |-> b]
Panicked == [kind |-> "Panic"]

\* ------------------------------------------------- the source (RangeBody)
\* A source of `size` bytes; the byte at offset o is o % 256, so that a
\* chunk's contents tell where in the source it came from.
NoSeek == -1

SourceData(size) == [i \in 1..size |-> (i - 1) % 256]

NewBody(size) == [data |-> SourceData(size), pos |-> 0, seek |-> NoSeek]

\* start_seek(position): records the target; the seek has not completed.
start_seek(b, position) == [b EXCEPT !.seek = position]

\* poll_complete resolving to Ok: the outstanding seek takes effect.
poll_complete(b) == [b EXCEPT !.pos = b.seek, !.seek = NoSeek]

\* Bytes of the source at and after its position.
Available(b) == IF b.pos >= Len(b.data) THEN 0 ELSE Len(b.data) - b.pos

\* The fill counts a successful poll_read into a region of n bytes may
\* produce: zero only when nothing is requested or nothing is left.
ReadFills(b, n) ==
    IF n = 0 \/ Available(b) = 0 THEN {0} ELSE 1..Min(n, Available(b))

\* poll_read resolving to Ok with k bytes: the bytes written, the new source.
ReadBytes(b, k) == SubSeq(b.data, b.pos + 1, b.pos + k)
poll_read(b, k) == [b EXCEPT !.pos = b.pos + k]

\* What the source answers to one call.
OkRes == [kind |-> "Ok"]
PendingRes == [kind |-> "Pending"]
ErrRes(e) == [kind |-> "Err", err |-> e]
ReadOk(k) == [kind |-> "Ok", k |-> k]

SeekResults == {OkRes} \cup {ErrRes(e) : e \in IoErrors}
CompleteResults == {OkRes, PendingRes} \cup {ErrRes(e) : e \in IoErrors}
ReadResults ==
    {PendingRes} \cup {ErrRes(e) : e \in IoErrors}
        \cup {ReadOk(k) : k \in 0..USIZE_MAX}

\* ------------------------------------------------------------ the stream
\* A buffer allocated with twice the capacity.
allocate_buffer_double == [data |-> <<>>, cap |-> 2 * IO_BUFFER_SIZE]

\* fn allocate_buffer() -> BytesMut { BytesMut::with_capacity(IO_BUFFER_SIZE) }
allocate_buffer == [data |-> <<>>, cap |-> IO_BUFFER_SIZE]

\* buffer.spare_capacity_mut().len()
spare_capacity(buffer) == buffer.cap - Len(buffer.data)

\* The constructor with its arguments swapped.
new_swapped(start, length) == [tag |-> "Seek", start |-> length, remaining |-> start]

\* RangedStream::new
new(start, length) == [tag |-> "Seek", start |-> start, remaining |-> length]

\* The conversion done by a cast (`remaining as usize`), which wraps.
usize_wrapping(remaining) == remaining % (2^UsizeBits)

\* usize::try_from(remaining).unwrap_or(usize::MAX)
usize_try_from_or_max(remaining) ==
    IF remaining <= USIZE_MAX THEN remaining ELSE USIZE_MAX

\* The request size taken from the buffer alone, not from `remaining`.
nbytes_ignores_remaining(buffer, remaining) == spare_capacity(buffer)

\* let nbytes = min(uninit.len(), usize::try_from(*remaining).unwrap_or(usize::MAX))
nbytes(buffer, remaining) ==
    Min(spare_capacity(buffer), usize_try_from_or_max(remaining))

\* unsafe { buffer.set_len(buffer.len() + n) } after the source wrote
\* `filled` into the first bytes of the spare region.
set_len(buffer, filled) == [buffer EXCEPT !.data = buffer.data \o filled]

\* chunk.freeze(): the bytes of the chunk handed to the consumer.
freeze(chunk) == chunk.data

VARIABLES
    state,   \* RangedStream.state: StreamState
    body,    \* RangedStream.body: the source
    args,    \* the (start, length) given to RangedStream::new
    ret,     \* what the last poll_next call returned
    calls,   \* the calls the last poll_next made on the source, in order
    out,     \* the items yielded so far (chunks and failures), in order
    hist     \* how often start_seek was issued, and how often start_seek
             \* and poll_complete succeeded, over the stream's lifetime

vars == <<state, body, args, ret, calls, out, hist>>

NotPolled == [kind |-> "NotPolled"]

\* The lengths a stream is constructed with.
Lengths == (0..MaxLength) \cup {USIZE_MAX + 1, U64_MAX}

Init ==
    \E size \in 0..MaxSize, start \in 0..MaxStart, length \in Lengths :
        /\ state = new(start, length)
        /\ body = NewBody(size)
        /\ args = [start |-> start, length |-> length]
        /\ ret = NotPolled
        /\ calls = <<>>
        /\ out = <<>>
        /\ hist = [start_seek |-> 0, start_seek_ok |-> 0, poll_complete_ok |-> 0]

\* ------------------------------------------------------------- poll_next
\* One poll_next call is run on a context: the stream's state, the source,
\* the value returned (Running until the call returns) and the source calls
\* made so far.  sr, cr and rr are what the source answers to start_seek,
\* poll_complete and poll_read if the call gets to invoke them.
Call(op, arg, res) == [op |-> op, arg |-> arg, res |-> res]

\* The Seek block with the fields mixed up: it seeks to `remaining`.
SeekPhase_seeks_remaining(c, sr) ==
    IF c.ret.kind = "Running" /\ c.state.tag = "Seek"
    THEN LET start == c.state.start
             remaining == c.state.remaining
             c1 == [c EXCEPT !.calls = Append(@, Call("start_seek", remaining, sr))]
         IN  IF sr.kind = "Err"
             THEN [c1 EXCEPT !.ret = ReadyErr(sr.err)]
             ELSE [c1 EXCEPT !.body = start_seek(c.body, remaining),
                             !.state = [tag |-> "Seeking", remaining |-> remaining]]
    ELSE c

\* The Seek block with the result of start_seek dropped.
SeekPhase_ignores_error(c, sr) ==
    IF c.ret.kind = "Running" /\ c.state.tag = "Seek"
    THEN LET start == c.state.start
             remaining == c.state.remaining
             c1 == [c EXCEPT !.calls = Append(@, Call("start_seek", start, sr))]
         IN  [c1 EXCEPT !.body = start_seek(c.body, start),
                        !.state = [tag |-> "Seeking", remaining |-> remaining]]
    ELSE c

\* if let StreamState::Seek { start, remaining } = *this.state { ... }
SeekPhase(c, sr) ==
    IF c.ret.kind = "Running" /\ c.state.tag = "Seek"
    THEN LET start == c.state.start
             remaining == c.state.remaining
             c1 == [c EXCEPT !.calls = Append(@, Call("start_seek", start, sr))]
         IN  IF sr.kind = "Err"
             THEN [c1 EXCEPT !.ret = ReadyErr(sr.err)]
             ELSE [c1 EXCEPT !.body = start_seek(c.body, start),
                             !.state = [tag |-> "Seeking", remaining |-> remaining]]
    ELSE c

\* The Seeking block that starts over from Seek when the seek fails.
SeekingPhase_restarts(c, cr) ==
    IF c.ret.kind = "Running" /\ c.state.tag = "Seeking"
    THEN LET remaining == c.state.remaining
             c1 == [c EXCEPT !.calls = Append(@, Call("poll_complete", 0, cr))]
         IN  CASE cr.kind = "Pending" -> [c1 EXCEPT !.ret = RetPending]
               [] cr.kind = "Err" ->
                    [c1 EXCEPT !.ret = ReadyErr(cr.err),
                               !.state = new(c.body.seek, remaining)]
               [] cr.kind = "Ok" ->
                    [c1 EXCEPT !.body = poll_complete(c.body),
                               !.state = [tag |-> "Reading",
                                          buffer |-> allocate_buffer,
                                          remaining |-> remaining]]
    ELSE c

\* The Seeking block that goes back to Seek while the seek is not complete.
SeekingPhase_reseeks(c, cr) ==
    IF c.ret.kind = "Running" /\ c.state.tag = "Seeking"
    THEN LET remaining == c.state.remaining
             c1 == [c EXCEPT !.calls = Append(@, Call("poll_complete", 0, cr))]
         IN  CASE cr.kind = "Pending" ->
                    [c1 EXCEPT !.ret = RetPending,
                               !.state = new(c.body.seek, remaining)]
               [] cr.kind = "Err" -> [c1 EXCEPT !.ret = ReadyErr(cr.err)]
               [] cr.kind = "Ok" ->
                    [c1 EXCEPT !.body = poll_complete(c.body),
                               !.state = [tag |-> "Reading",
                                          buffer |-> allocate_buffer,
                                          remaining |-> remaining]]
    ELSE c

\* The Seeking block that goes on to read while the seek is not complete.
SeekingPhase_reads_early(c, cr) ==
    IF c.ret.kind = "Running" /\ c.state.tag = "Seeking"
    THEN LET remaining == c.state.remaining
             c1 == [c EXCEPT !.calls = Append(@, Call("poll_complete", 0, cr))]
         IN  CASE cr.kind = "Pending" ->
                    [c1 EXCEPT !.state = [tag |-> "Reading",
                                          buffer |-> allocate_buffer,
                                          remaining |-> remaining]]
               [] cr.kind = "Err" -> [c1 EXCEPT !.ret = ReadyErr(cr.err)]
               [] cr.kind = "Ok" ->
                    [c1 EXCEPT !.body = poll_complete(c.body),
                               !.state = [tag |-> "Reading",
                                          buffer |-> allocate_buffer,
                                          remaining |-> remaining]]
    ELSE c

\* The Seeking block that reports a seek that is not complete as a failure.
SeekingPhase_would_block(c, cr) ==
    IF c.ret.kind = "Running" /\ c.state.tag = "Seeking"
    THEN LET remaining == c.state.remaining
             c1 == [c EXCEPT !.calls = Append(@, Call("poll_complete", 0, cr))]
         IN  CASE cr.kind = "Pending" -> [c1 EXCEPT !.ret = ReadyErr("e1")]
               [] cr.kind = "Err" -> [c1 EXCEPT !.ret = ReadyErr(cr.err)]
               [] cr.kind = "Ok" ->
                    [c1 EXCEPT !.body = poll_complete(c.body),
                               !.state = [tag |-> "Reading",
                                          buffer |-> allocate_buffer,
                                          remaining |-> remaining]]
    ELSE c

\* if let StreamState::Seeking { remaining } = *this.state { ... }
SeekingPhase(c, cr) ==
    IF c.ret.kind = "Running" /\ c.state.tag = "Seeking"
    THEN LET remaining == c.state.remaining
             c1 == [c EXCEPT !.calls = Append(@, Call("poll_complete", 0, cr))]
         IN  CASE cr.kind = "Pending" -> [c1 EXCEPT !.ret = RetPending]
               [] cr.kind = "Err" -> [c1 EXCEPT !.ret = ReadyErr(cr.err)]
               [] cr.kind = "Ok" ->
                    [c1 EXCEPT !.body = poll_complete(c.body),
                               !.state = [tag |-> "Reading",
                                          buffer |-> allocate_buffer,
                                          remaining |-> remaining]]
    ELSE c

\* The decrement left out: `remaining` keeps its value.
sub_assign_forgotten(remaining, n, wraps) == remaining

\* *remaining -= u64::try_from(n).unwrap(): the new value of `remaining`, or
\* -1 for the panic of a build with overflow checks when n > remaining
\* (a build without them wraps).
sub_assign(remaining, n, wraps) ==
    IF n > remaining /\ ~wraps THEN -1 ELSE (remaining - n) % (2^U64Bits)

\* The n => { ... } arm that decrements `remaining` by the bytes requested,
\* not by the bytes filled.
YieldChunk_decrements_request(c, filled, wraps) ==
    LET buffer == set_len(c.state.buffer, filled)
        chunk == buffer
        left == sub_assign(c.state.remaining,
                           nbytes(c.state.buffer, c.state.remaining), wraps)
    IN  IF left < 0
        THEN [c EXCEPT !.state.buffer = allocate_buffer, !.ret = Panicked]
        ELSE [c EXCEPT !.state.buffer = allocate_buffer,
                       !.state.remaining = left,
                       !.ret = ReadyChunk(freeze(chunk))]

\* The n => { ... } arm that hands out a copy of the buffer and keeps
\* filling the same one.
YieldChunk_keeps_buffer(c, filled, wraps) ==
    LET buffer == set_len(c.state.buffer, filled)
        chunk == buffer
        left == sub_assign(c.state.remaining, Len(filled), wraps)
    IN  IF left < 0
        THEN [c EXCEPT !.state.buffer = buffer, !.ret = Panicked]
        ELSE [c EXCEPT !.state.buffer = buffer,
                       !.state.remaining = left,
                       !.ret = ReadyChunk(freeze(chunk))]

\* The n => { ... } arm: the chunk is taken, the buffer replaced, `remaining`
\* decremented and the chunk returned.
YieldChunk(c, filled, wraps) ==
    LET buffer == set_len(c.state.buffer, filled)
        chunk == buffer
        left == sub_assign(c.state.remaining, Len(filled), wraps)
    IN  IF left < 0
        THEN [c EXCEPT !.state.buffer = allocate_buffer, !.ret = Panicked]
        ELSE [c EXCEPT !.state.buffer = allocate_buffer,
                       !.state.remaining = left,
                       !.ret = ReadyChunk(freeze(chunk))]

\* The 0 => arm that reports a source ending early as a failure.
ZeroFilled_eof(c) ==
    IF c.state.remaining > 0
    THEN [c EXCEPT !.ret = ReadyErr("e1")]
    ELSE [c EXCEPT !.ret = ReadyNone]

\* The 0 => arm that takes an empty read for a source that is not ready.
ZeroFilled_pending(c) == [c EXCEPT !.ret = RetPending]

\* The 0 => arm that marks the stream finished with a state of its own.
ZeroFilled_done(c) == [c EXCEPT !.ret = ReadyNone, !.state = [tag |-> "Done"]]

\* The 0 => arm that writes off the bytes not delivered.
ZeroFilled_clears(c) == [c EXCEPT !.ret = ReadyNone, !.state.remaining = 0]

\* The 0 => { return Poll::Ready(None); } arm.
ZeroFilled(c) == [c EXCEPT !.ret = ReadyNone]

\* The Reading block that accounts for the read before it completes: a read
\* that is not ready has already been subtracted from `remaining`.
ReadingPhase_eager(c, rr, wraps) ==
    IF c.ret.kind = "Running" /\ c.state.tag = "Reading"
    THEN LET n_req == nbytes(c.state.buffer, c.state.remaining)
             c1 == [c EXCEPT !.calls = Append(@, Call("poll_read", n_req, rr))]
         IN  CASE rr.kind = "Pending" ->
                    [c1 EXCEPT !.ret = RetPending,
                               !.state.remaining = c.state.remaining - n_req]
               [] rr.kind = "Err" -> [c1 EXCEPT !.ret = ReadyErr(rr.err)]
               [] rr.kind = "Ok" ->
                    LET filled == ReadBytes(c.body, rr.k)
                        c2 == [c1 EXCEPT !.body = poll_read(c.body, rr.k)]
                    IN  IF Len(filled) = 0
                        THEN ZeroFilled(c2)
                        ELSE YieldChunk(c2, filled, wraps)
    ELSE c

\* The Reading block that ends the stream after a failed read: nothing is
\* left to deliver.
ReadingPhase_err_terminal(c, rr, wraps) ==
    IF c.ret.kind = "Running" /\ c.state.tag = "Reading"
    THEN LET n_req == nbytes(c.state.buffer, c.state.remaining)
             c1 == [c EXCEPT !.calls = Append(@, Call("poll_read", n_req, rr))]
         IN  CASE rr.kind = "Pending" -> [c1 EXCEPT !.ret = RetPending]
               [] rr.kind = "Err" ->
                    [c1 EXCEPT !.ret = ReadyErr(rr.err), !.state.remaining = 0]
               [] rr.kind = "Ok" ->
                    LET filled == ReadBytes(c.body, rr.k)
                        c2 == [c1 EXCEPT !.body = poll_read(c.body, rr.k)]
                    IN  IF Len(filled) = 0
                        THEN ZeroFilled(c2)
                        ELSE YieldChunk(c2, filled, wraps)
    ELSE c

\* if let StreamState::Reading { buffer, remaining } = this.state { ... }
ReadingPhase(c, rr, wraps) ==
    IF c.ret.kind = "Running" /\ c.state.tag = "Reading"
    THEN LET n_req == nbytes(c.state.buffer, c.state.remaining)
             c1 == [c EXCEPT !.calls = Append(@, Call("poll_read", n_req, rr))]
         IN  CASE rr.kind = "Pending" -> [c1 EXCEPT !.ret = RetPending]
               [] rr.kind = "Err" -> [c1 EXCEPT !.ret = ReadyErr(rr.err)]
               [] rr.kind = "Ok" ->
                    LET filled == ReadBytes(c.body, rr.k)
                        c2 == [c1 EXCEPT !.body = poll_read(c.body, rr.k)]
                    IN  IF Len(filled) = 0
                        THEN ZeroFilled(c2)
                        ELSE YieldChunk(c2, filled, wraps)
    ELSE c

\* The context in which the call reaches its Reading block.
BeforeRead(c, sr, cr) == SeekingPhase(SeekPhase(c, sr), cr)

\* fn poll_next: the three blocks in order, then unreachable!().
poll_next(c, sr, cr, rr, wraps) ==
    LET c3 == ReadingPhase(BeforeRead(c, sr, cr), rr, wraps)
    IN  IF c3.ret.kind = "Running" THEN [c3 EXCEPT !.ret = Panicked] ELSE c3

\* ---------------------------------------------------------------- actions
IsItem(r) == r.kind \in {"Chunk", "Err"}

Failures(items) == Cardinality({i \in DOMAIN items : items[i].kind = "Err"})

\* The source answers a read with a fill count it can produce.
ReadAnswerable(c, rr) ==
    (c.ret.kind = "Running" /\ c.state.tag = "Reading" /\ rr.kind = "Ok")
        => rr.k \in ReadFills(c.body, nbytes(c.state.buffer, c.state.remaining))

\* The calls of cs to op that the source answered with one of kinds.
Count(cs, op, kinds) ==
    Cardinality({i \in DOMAIN cs : cs[i].op = op /\ cs[i].res.kind \in kinds})

\* The consumer calls poll_next and the source answers sr, cr, rr.
Poll(sr, cr, rr, wraps) ==
    LET c0 == [state |-> state, body |-> body, ret |-> Running, calls |-> <<>>]
    IN  /\ ret.kind # "Panic"
        /\ ReadAnswerable(BeforeRead(c0, sr, cr), rr)
        /\ \E c \in {poll_next(c0, sr, cr, rr, wraps)} :
            /\ state' = c.state
            /\ body' = c.body
            /\ ret' = c.ret
            /\ calls' = c.calls
            /\ out' = IF IsItem(c.ret) THEN Append(out, c.ret) ELSE out
            /\ hist' =
                [start_seek |->
                    hist.start_seek + Count(c.calls, "start_seek", {"Ok", "Err"}),
                 start_seek_ok |->
                    hist.start_seek_ok + Count(c.calls, "start_seek", {"Ok"}),
                 poll_complete_ok |->
                    hist.poll_complete_ok + Count(c.calls, "poll_complete", {"Ok"})]
        /\ UNCHANGED args

LastRes(cs) == cs[Len(cs)].res.kind

\* A poll in which every source call made is ready and succeeds; the read,
\* if the call gets to it, fills k bytes.
PollReady ==
    \E k \in 0..USIZE_MAX, wraps \in BOOLEAN :
        Poll(OkRes, OkRes, ReadOk(k), wraps)

\* A poll in which the source reports "not ready": for the seek completion,
\* or for the read.
PollNotReady ==
    \E cr \in {OkRes, PendingRes} :
        /\ Poll(OkRes, cr, PendingRes, FALSE)
        /\ LastRes(calls') = "Pending"

\* A poll in which one source call fails with the error e: start_seek,
\* poll_complete or poll_read, whichever the call gets to.
PollFail ==
    \E e \in IoErrors, op \in {"start_seek", "poll_complete", "poll_read"} :
        /\ Failures(out) < MaxErrors
        /\ Poll(IF op = "start_seek" THEN ErrRes(e) ELSE OkRes,
                IF op = "poll_complete" THEN ErrRes(e) ELSE OkRes,
                IF op = "poll_read" THEN ErrRes(e) ELSE PendingRes, FALSE)
        /\ \E i \in DOMAIN calls' :
            calls'[i].op = op /\ calls'[i].res.kind = "Err"

Next == PollReady \/ PollNotReady \/ PollFail

Spec == Init /\ [][Next]_vars

\* A source that never fails and a consumer that keeps polling: every seek
\* or read that is not ready becomes ready, so the poll with a ready source
\* is eventually taken.
NextLive == PollReady \/ PollNotReady

LiveSpec == Init /\ [][NextLive]_vars /\ WF_vars(PollReady)

\* ----------------------------------------------------------- properties
RECURSIVE Concat(_)
Concat(ss) == IF ss = <<>> THEN <<>> ELSE Head(ss) \o Concat(Tail(ss))

\* The chunks yielded so far, in order, and their bytes put together.
IsChunk(item) == item.kind = "Chunk"
Chunks == [i \in 1..Len(SelectSeq(out, IsChunk)) |->
              SelectSeq(out, IsChunk)[i].bytes]
Delivered == Concat(Chunks)

\* The source bytes at offsets [from, from + n).
SourceBytes(from, n) == SubSeq(body.data, from + 1, from + n)

\* C1: when the range lies within the source and the source never fails, a
\* run driven to end-of-stream has yielded exactly `length` bytes, the source
\* bytes in [start, start + length).
C1_RangeDelivered ==
    (/\ ret.kind = "None"
     /\ Failures(out) = 0
     /\ args.start + args.length <= Len(body.data))
        => /\ Len(Delivered) = args.length
           /\ Delivered = SourceBytes(args.start, args.length)

\* A run to end-of-stream of a range of more than one buffer that starts
\* after offset 0 and ends before the end of the source.
C1_Witness ==
    /\ ret.kind = "None"
    /\ Failures(out) = 0
    /\ args.start > 0
    /\ args.length > IO_BUFFER_SIZE
    /\ args.start + args.length < Len(body.data)
    /\ Len(Chunks) >= 2

\* The source offset at which the i-th chunk begins if the chunks are
\* contiguous from `start`.
RECURSIVE ChunkOffset(_)
ChunkOffset(i) ==
    IF i = 1 THEN args.start ELSE ChunkOffset(i - 1) + Len(Chunks[i - 1])

\* C2: the first chunk begins at offset `start`, each later chunk begins
\* where the previous one ended, and the offsets strictly increase: every
\* chunk is the source's bytes at its offset.
C2_ChunksContiguous ==
    \A i \in DOMAIN Chunks :
        /\ Chunks[i] = SourceBytes(ChunkOffset(i), Len(Chunks[i]))
        /\ i > 1 => ChunkOffset(i) > ChunkOffset(i - 1)

\* Three chunks have been yielded from a range that starts after offset 0.
C2_Witness ==
    /\ Len(Chunks) >= 3
    /\ args.start > 0

\* C3: every chunk yielded has between 1 and IO_BUFFER_SIZE bytes.
C3_ChunkSize ==
    \A i \in DOMAIN Chunks :
        1 <= Len(Chunks[i]) /\ Len(Chunks[i]) <= IO_BUFFER_SIZE

\* A range of more than two buffers, delivered in full, with a chunk that
\* fills the buffer and a chunk of one byte.
C3_Witness ==
    /\ args.length > 2 * IO_BUFFER_SIZE
    /\ Len(Delivered) = args.length
    /\ \E i \in DOMAIN Chunks : Len(Chunks[i]) = IO_BUFFER_SIZE
    /\ \E i \in DOMAIN Chunks : Len(Chunks[i]) = 1

\* The last call the last poll_next made on the source.
LastCall == calls[Len(calls)]

\* C4: a successful read that fills zero bytes while `remaining` > 0 ends
\* the stream normally, with fewer than `length` bytes delivered; a source
\* that ends inside the range delivers its bytes from `start` to its end.
C4_ShortSourceEndsNormally ==
    /\ (/\ calls # <<>>
        /\ LastCall.op = "poll_read"
        /\ LastCall.res = ReadOk(0)
        /\ state.remaining > 0)
           => /\ ret = ReadyNone
              /\ Len(Delivered) < args.length
    /\ (/\ ret.kind = "None"
        /\ Failures(out) = 0
        /\ args.start <= Len(body.data)
        /\ Len(body.data) < args.start + args.length)
           => Delivered = SourceBytes(args.start, Len(body.data) - args.start)

\* The source ends inside the range: its bytes from `start` on were
\* delivered and the stream ended with `remaining` > 0.
C4_Witness ==
    /\ ret = ReadyNone
    /\ state.remaining > 0
    /\ args.start > 0
    /\ Len(Delivered) > IO_BUFFER_SIZE
    /\ LastCall.res = ReadOk(0)
    /\ LastCall.arg > 0

\* C5: a poll_next call in which a source call fails makes no further call
\* on the source (the failed call is not repeated), returns the failure item
\* carrying that error, and yields that item and nothing else.
C5_FailureSurfacedOnce ==
    [][\A i \in DOMAIN calls' :
          calls'[i].res.kind = "Err"
             => /\ i = Len(calls')
                /\ \A j \in 1..(i - 1) : calls'[j].op # calls'[i].op
                /\ ret' = ReadyErr(calls'[i].res.err)
                /\ out' = Append(out, ret')]_vars

\* A read has failed after two chunks were yielded.
C5_Witness ==
    /\ ret.kind = "Err"
    /\ LastCall.op = "poll_read"
    /\ Len(Chunks) >= 2
    /\ out[Len(out)] = ret

\* What a poll with a ready source returns, and the stream and source it
\* leaves, when the read fills k bytes.
ReadyOutcome(st, bd, k) ==
    LET c == poll_next([state |-> st, body |-> bd, ret |-> Running,
                        calls |-> <<>>], OkRes, OkRes, ReadOk(k), FALSE)
    IN  <<c.state, c.body, c.ret>>

\* C6: a poll in which the source is not ready returns Pending, yields no
\* item and keeps `remaining`; in Seeking with the seek not complete, and in
\* Reading, it leaves the stream and the source as they were; and a ready
\* poll after it has the outcome a ready poll in its place would have had.
C6_PendingIsIdle ==
    [][(calls' # <<>> /\ LastRes(calls') = "Pending")
          => /\ ret' = RetPending
             /\ out' = out
             /\ state'.remaining = state.remaining
             /\ (state.tag = "Seeking" /\ calls'[1].res.kind = "Pending")
                   => (state' = state /\ body' = body)
             /\ state.tag = "Reading" => (state' = state /\ body' = body)
             /\ \A k \in 0..USIZE_MAX :
                   ReadAnswerable(BeforeRead([state |-> state, body |-> body,
                                              ret |-> Running, calls |-> <<>>],
                                             OkRes, OkRes), ReadOk(k))
                      => ReadyOutcome(state', body', k)
                            = ReadyOutcome(state, body, k)]_vars

\* C6 as stated: a poll in which the source is not ready leaves the state as
\* it was whenever the stream was already in Seeking or Reading.
C6_PendingKeepsState ==
    [][(calls' # <<>> /\ LastRes(calls') = "Pending")
          => /\ ret' = RetPending
             /\ out' = out
             /\ state'.remaining = state.remaining
             /\ state.tag \in {"Seeking", "Reading"} => state' = state]_vars

\* A read was not ready after a chunk had been yielded, with bytes still to
\* deliver.
C6_Witness ==
    /\ ret = RetPending
    /\ state.tag = "Reading"
    /\ state.remaining > 0
    /\ Len(Chunks) >= 1
    /\ Available(body) > 0

\* C7: with length = 0 no chunk is ever yielded; every read requests zero
\* bytes, and a read that completes fills zero bytes and ends the stream.
C7_ZeroLength ==
    args.length = 0
       => /\ Chunks = <<>>
          /\ (calls # <<>> /\ LastCall.op = "poll_read")
                => /\ LastCall.arg = 0
                   /\ LastCall.res.kind = "Ok"
                         => (LastCall.res.k = 0 /\ ret = ReadyNone)

\* The first poll of a stream of length 0 sought, read and returned
\* end-of-stream, with bytes of the source left at `start`.
C7_Witness ==
    /\ args.length = 0
    /\ args.start > 0
    /\ Len(calls) = 3
    /\ ret = ReadyNone
    /\ Available(body) > 0

\* C8: with a source that never fails and whose pending seeks and reads
\* become ready, a consumer that keeps polling receives end-of-stream.
C8_Terminates == <>(ret = ReadyNone)

\* End-of-stream was received after the range was delivered in full in more
\* than one chunk.
C8_Witness ==
    /\ ret = ReadyNone
    /\ state.remaining = 0
    /\ Len(Chunks) >= 2

\* The phases in order.
Rank(tag) == CASE tag = "Seek" -> 0 [] tag = "Seeking" -> 1 [] tag = "Reading" -> 2

\* The state is one variant of StreamState, with that variant's fields.
StateShape(st) ==
    \/ st.tag = "Seek" /\ DOMAIN st = {"tag", "start", "remaining"}
    \/ st.tag = "Seeking" /\ DOMAIN st = {"tag", "remaining"}
    \/ st.tag = "Reading" /\ DOMAIN st = {"tag", "buffer", "remaining"}

\* The start_seek and poll_complete calls that succeeded.
SeekOks(cs) ==
    Cardinality({i \in DOMAIN cs :
                    /\ cs[i].op \in {"start_seek", "poll_complete"}
                    /\ cs[i].res.kind = "Ok"})

\* C9: the state is always one of Seek, Seeking, Reading; a poll never moves
\* it to an earlier phase, and it moves it one phase forward for each
\* start_seek or poll_complete that succeeds in the poll, and not otherwise.
C9_PhaseForward ==
    /\ StateShape(state)
    /\ [][/\ StateShape(state')
          /\ Rank(state'.tag) >= Rank(state.tag)
          /\ Rank(state'.tag) - Rank(state.tag) = SeekOks(calls')]_vars

\* The stream reached Reading after a failed start_seek, a failed
\* poll_complete or a seek that was not ready.
C9_Witness ==
    /\ state.tag = "Reading"
    /\ Failures(out) >= 1
    /\ Len(Chunks) >= 1

\* C10: `remaining` starts as `length`; a poll that yields a chunk decreases
\* it by the chunk's byte count, and no other poll changes it.
C10_RemainingAccounting ==
    /\ state.remaining = args.length
    /\ [][IF out' # out /\ out'[Len(out')].kind = "Chunk"
          THEN state'.remaining = state.remaining - Len(out'[Len(out')].bytes)
          ELSE state'.remaining = state.remaining]_vars

\* Two chunks have been yielded and the last one was shorter than the
\* buffer although more bytes remained.
C10_Witness ==
    /\ Len(Chunks) >= 2
    /\ ret.kind = "Chunk"
    /\ Len(ret.bytes) < IO_BUFFER_SIZE
    /\ state.remaining > 0

\* The context of a poll_next call entered in the current state.
Entry == [state |-> state, body |-> body, ret |-> Running, calls |-> <<>>]

\* C11 as stated: start_seek is issued exactly once over the lifetime of a
\* stream (once it has been polled).
C11_SeekIssuedOnce ==
    hist.start_seek = IF ret.kind = "NotPolled" THEN 0 ELSE 1

\* How often start_seek was issued and succeeded, against the phase and the
\* failures yielded.
SeekCounts ==
    /\ hist.start_seek_ok <= 1
    /\ hist.start_seek_ok = 1 <=> state.tag # "Seek"
    /\ hist.start_seek <= 1 + Failures(out)
    /\ (ret.kind # "NotPolled" /\ Failures(out) = 0) => hist.start_seek = 1

\* C11: start_seek is issued only by a poll entered in Seek, as its first
\* call and with the `start` given at construction; it succeeds at most
\* once, and having succeeded it leaves the state Seeking with the same
\* `remaining`, so no later poll issues it; it is issued once more for each
\* poll in which it failed.
C11_SeekSucceedsOnce ==
    /\ SeekCounts
    /\ [][SeekCounts']_vars
    /\ [][\A i \in DOMAIN calls' :
             calls'[i].op = "start_seek"
                => /\ i = 1
                   /\ state.tag = "Seek"
                   /\ hist.start_seek_ok = 0
                   /\ calls'[i].arg = args.start
                   /\ calls'[i].res.kind = "Ok"
                         => SeekPhase(Entry, OkRes).state
                               = [tag |-> "Seeking",
                                  remaining |-> state.remaining]]_vars

\* A poll entered in Seeking found the seek not complete and issued no
\* start_seek, for a stream that starts after offset 0.
C11_Witness ==
    /\ args.start > 0
    /\ hist.start_seek = 1
    /\ state.tag = "Seeking"
    /\ calls = <<Call("poll_complete", 0, PendingRes)>>

\* The calls of cs before the i-th.
Earlier(cs, i) == SubSeq(cs, 1, i - 1)

\* C12: when poll_read is invoked, start_seek has succeeded and poll_complete
\* has succeeded after it; when poll_complete is invoked, start_seek has
\* succeeded and poll_complete has not yet (the stream has not entered
\* Reading).
C12_SeekBeforeRead ==
    [][\A i \in DOMAIN calls' :
          LET seek_ok == hist.start_seek_ok
                            + Count(Earlier(calls', i), "start_seek", {"Ok"})
              complete_ok == hist.poll_complete_ok
                                + Count(Earlier(calls', i), "poll_complete", {"Ok"})
          IN  /\ calls'[i].op = "poll_read"
                    => seek_ok = 1 /\ complete_ok = 1
              /\ calls'[i].op = "poll_complete"
                    => /\ seek_ok = 1 /\ complete_ok = 0
                       /\ state.tag # "Reading"
              /\ complete_ok <= seek_ok]_vars

\* A poll entered in Seeking completed the seek and read a chunk, the seek
\* having been issued by an earlier poll.
C12_Witness ==
    /\ args.start > 0
    /\ Len(calls) = 2
    /\ calls[1] = Call("poll_complete", 0, OkRes)
    /\ calls[2].op = "poll_read"
    /\ ret.kind = "Chunk"

\* C13: a poll in which a source call fails leaves the state where the call
\* was made: Seek for start_seek, Seeking for poll_complete, Reading with an
\* empty buffer for poll_read, always with the same `remaining`; and the
\* poll after it begins with the call that failed, with the same argument.
C13_FailureKeepsState ==
    [][/\ (calls' # <<>> /\ LastRes(calls') = "Err")
             => LET failed == calls'[Len(calls')]
                IN  /\ failed.op = "start_seek"
                          => state.tag = "Seek" /\ state' = state
                    /\ failed.op = "poll_complete"
                          => state' = [tag |-> "Seeking",
                                       remaining |-> state.remaining]
                    /\ failed.op = "poll_read"
                          => state' = [tag |-> "Reading",
                                       buffer |-> [data |-> <<>>,
                                                   cap |-> IO_BUFFER_SIZE],
                                       remaining |-> state.remaining]
       /\ (calls # <<>> /\ LastRes(calls) = "Err")
             => /\ calls' # <<>>
                /\ calls'[1].op = LastCall.op
                /\ calls'[1].arg = LastCall.arg]_vars

\* The poll after a failed read read again and yielded a chunk right after
\* the failure item.
C13_Witness ==
    /\ Len(out) >= 3
    /\ out[Len(out) - 1].kind = "Err"
    /\ out[Len(out)].kind = "Chunk"
    /\ ret.kind = "Chunk"
    /\ Len(calls) = 1

\* C14: every read requests the smaller of the buffer's spare capacity and
\* `remaining` (as integers, so a `remaining` above USIZE_MAX is not
\* wrapped); the bytes filled do not exceed `remaining`, the subtraction
\* leaves remaining - N >= 0, N fits in 64 bits, and no poll panics.
C14_RequestSize ==
    [][/\ \A i \in DOMAIN calls' :
             calls'[i].op = "poll_read"
                => LET spare == IF state.tag = "Reading"
                                THEN state.buffer.cap - Len(state.buffer.data)
                                ELSE IO_BUFFER_SIZE
                       res == calls'[i].res
                   IN  /\ calls'[i].arg = Min(spare, state.remaining)
                       /\ calls'[i].arg <= USIZE_MAX
                       /\ res.kind = "Ok"
                             => /\ res.k <= state.remaining
                                /\ res.k <= U64_MAX
                                /\ state'.remaining = state.remaining - res.k
                                /\ state'.remaining >= 0
       /\ ret'.kind # "Panic"]_vars

\* A full buffer was read while `remaining` was, and still is, larger than
\* USIZE_MAX.
C14_Witness ==
    /\ args.length > USIZE_MAX
    /\ ret.kind = "Chunk"
    /\ LastCall.arg = IO_BUFFER_SIZE
    /\ Len(ret.bytes) = IO_BUFFER_SIZE
    /\ state.remaining > USIZE_MAX

\* C15: whenever the stream is in Reading between polls, its buffer holds no
\* filled bytes and has IO_BUFFER_SIZE bytes of spare capacity, also right
\* after a chunk was yielded; and a chunk holds the bytes of one read only.
C15_FreshBuffer ==
    /\ state.tag = "Reading"
          => /\ state.buffer.data = <<>>
             /\ state.buffer.cap - Len(state.buffer.data) = IO_BUFFER_SIZE
    /\ ret.kind = "Chunk" => Len(ret.bytes) = LastCall.res.k

\* A second chunk, a full buffer, has just been yielded and the stream is
\* in Reading with more bytes to deliver.
C15_Witness ==
    /\ state.tag = "Reading"
    /\ ret.kind = "Chunk"
    /\ Len(ret.bytes) = IO_BUFFER_SIZE
    /\ Len(Chunks) = 2
    /\ state.remaining > 0
    /\ Failures(out) = 0

\* The answers a read can get in context c.
ReadAnswers(c) ==
    {PendingRes} \cup {ErrRes(e) : e \in IoErrors}
        \cup {ReadOk(k) : k \in IF c.ret.kind = "Running" /\ c.state.tag = "Reading"
                                THEN ReadFills(c.body, nbytes(c.state.buffer,
                                                             c.state.remaining))
                                ELSE {0}}

\* The answers start_seek and poll_complete can get in a call entered in the
\* current state: one answer stands for all where the call is not made.
AskedSeekResults == IF state.tag = "Seek" THEN SeekResults ELSE {OkRes}
AskedCompleteResults ==
    IF state.tag \in {"Seek", "Seeking"} THEN CompleteResults ELSE {OkRes}

\* C16: no poll_next call has ended in unreachable!() (or any panic), and a
\* call entered in the current state returns Pending, a failure, a chunk or
\* end-of-stream from within its three blocks, whatever the source answers.
C16_NeverUnreachable ==
    /\ ret.kind # "Panic"
    /\ \A sr \in AskedSeekResults, cr \in AskedCompleteResults :
          \A c \in {BeforeRead(Entry, sr, cr)} :
              \A rr \in ReadAnswers(c) :
                  ReadingPhase(c, rr, FALSE).ret.kind
                      \in {"Pending", "Err", "Chunk", "None"}

\* A run with a failure, chunks and end-of-stream after the whole range.
C16_Witness ==
    /\ state.tag = "Reading"
    /\ ret = ReadyNone
    /\ state.remaining = 0
    /\ Failures(out) = 1
    /\ Len(Chunks) >= 2

\* C17: poll_next has returned Pending exactly when the last call it made
\* on the source was a poll_complete or a poll_read that the source answered
\* Pending; that call was made in Seeking, respectively Reading.
C17_PendingOnlyFromSource ==
    /\ ret = RetPending
          <=> /\ calls # <<>>
              /\ LastCall.res.kind = "Pending"
    /\ ret = RetPending
          => \/ LastCall.op = "poll_complete" /\ state.tag = "Seeking"
             \/ LastCall.op = "poll_read" /\ state.tag = "Reading"
    /\ \A i \in DOMAIN calls :
          calls[i].res.kind = "Pending" => i = Len(calls)

\* The first poll issued the seek and returned Pending because the seek had
\* not completed.
C17_Witness ==
    /\ ret = RetPending
    /\ state.tag = "Seeking"
    /\ Len(calls) = 2
    /\ calls[1].res = OkRes
    /\ args.length > 0

\* C18: the bytes of the chunks yielded so far plus `remaining` equal the
\* `length` given at construction, so the bytes delivered never exceed it.
C18_Conservation ==
    /\ Len(Delivered) + state.remaining = args.length
    /\ Len(Delivered) <= args.length

\* Chunks were yielded around a failed poll and a poll that was not ready,
\* with bytes still to deliver.
C18_Witness ==
    /\ Len(out) >= 3
    /\ out[1].kind = "Chunk"
    /\ out[2].kind = "Err"
    /\ out[3].kind = "Chunk"
    /\ ret = RetPending
    /\ state.remaining > 0

\* C19: a poll that returns None leaves the stream in Reading with the
\* `remaining` it had and an empty buffer; the poll after it makes one call,
\* a poll_read; and a poll entered in Reading with `remaining` = 0 requests
\* zero bytes, yields no chunk (it returns None, Pending or a failure) and
\* leaves `remaining` at 0.
C19_EndIsNotAState ==
    [][/\ ret' = ReadyNone
             => state' = [tag |-> "Reading",
                          buffer |-> [data |-> <<>>, cap |-> IO_BUFFER_SIZE],
                          remaining |-> state.remaining]
       /\ ret = ReadyNone
             => Len(calls') = 1 /\ calls'[1].op = "poll_read"
       /\ (state.tag = "Reading" /\ state.remaining = 0)
             => /\ calls'[1].op = "poll_read" /\ calls'[1].arg = 0
                /\ ret'.kind \in {"None", "Pending", "Err"}
                /\ SelectSeq(out', IsChunk) = SelectSeq(out, IsChunk)
                /\ state'.remaining = 0]_vars

\* The whole range was delivered and a read of zero bytes ended the stream
\* while the source has bytes left.
C19_Witness ==
    /\ ret = ReadyNone
    /\ args.length > 0
    /\ state.remaining = 0
    /\ calls = <<Call("poll_read", 0, ReadOk(0))>>
    /\ Available(body) > 0

====
